---- MODULE Spec2Model ----
(***************************************************************************)
(* Model of the smart-code-search pipeline: the repository watcher         *)
(* (get_changed_files), the loader/splitter (load_and_split_documents),    *)
(* the persisted FAISS index (get_vectorstore, init_vectorstore,           *)
(* save_vectorstore), the indexer entry point (document_indexer.main) and  *)
(* the search entry point (search_code, qa_search, create_mmr_retriever).  *)
(*                                                                         *)
(* A file name is <<stem, extension>>; a path below the local clone is     *)
(* <<repo_path, stem, extension>>.  A file's content is a blob: a short    *)
(* text or a long one; a new file holds the short text.                    *)
(***************************************************************************)
EXTENDS Integers, Sequences, FiniteSets, TLC

VARIABLES
    tree,          \* the tree of the newest commit of the remote branch: name -> blob
    headDiff,      \* the diff from the previous commit to the newest one
    commitCount,   \* number of commits on the branch
    cloned,        \* os.path.exists(repo_path)
    faiss_index,   \* the directory ./faiss_index
    indexedTree,   \* the tree the previous successful indexer run worked on
    run,           \* what the last indexer run computed
    search,        \* what the last search_code call computed
    load_in,       \* arguments and file system of a stand-alone loader call
    load_out,      \* its result
    batch_in,      \* arguments of a stand-alone init_vectorstore / add_document_batches call
    batch_out,     \* its result
    rag            \* what the last generate_rag_answers call did to its questions

vars == <<tree, headDiff, commitCount, cloned, faiss_index, indexedTree, run,
          search, load_in, load_out, batch_in, batch_out, rag>>

-----------------------------------------------------------------------------
(* Bounds of the model *)

MaxCommits == 3
MaxDocs == 2
MaxK == 2
MaxFiles == 2

None == "None"

-----------------------------------------------------------------------------
(* Files *)

REPO_PATH == "repo"

RepoFiles == {<<"a", ".py">>, <<"b", ".MD">>}

\* the order in which git lists paths
FileOrder == << <<"a", ".py">>, <<"b", ".MD">>, <<"c", ".bin">>, <<"d", ".PY">>,
                <<"e", ".csv">>, <<"f", ".ipynb">>, <<"g", ".pdf">>, <<"h", "">> >>

AllFiles == {FileOrder[i] : i \in 1..Len(FileOrder)}

Prefix(name) == <<REPO_PATH, name[1], name[2]>>

Splitext(path) == path[3]

Lower(ext) ==
    CASE ext = ".PY" -> ".py"
      [] ext = ".MD" -> ".md"
      [] OTHER -> ext

TextExtensions ==
    {".txt", ".md", ".py", ".js", ".html", ".css", ".java", ".c", ".cpp", ".ts",
     ".yaml", ".yml", ".toml", ".json", ".xml", ".ini", ".config", ".conf"}

-----------------------------------------------------------------------------
(* The remote repository, as the source-control client shows it *)

\* One entry of a diff, with the fields of git.Diff that the code reads.  For an
\* added, modified or deleted file a_path = b_path; for a renamed file a_path is
\* the old path and b_path the new one (diffs are computed with rename detection).
DiffEntries ==
    [change_type : {"A", "M", "D"}, a_path : RepoFiles, b_path : RepoFiles]
    \cup [change_type : {"R"}, a_path : RepoFiles, b_path : RepoFiles]

Absent == "absent"
ShortBlob == "short"
LongBlob == "long"

\* a modification replaces the short text by the long one or the other way round
OtherBlob(blob) == IF blob = ShortBlob THEN LongBlob ELSE ShortBlob

Touched(c) == {c.a_path, c.b_path}

ValidChange(t, c) ==
    CASE c.change_type = "A" -> c.a_path = c.b_path /\ t[c.a_path] = Absent
      [] c.change_type = "M" -> c.a_path = c.b_path /\ t[c.a_path] # Absent
      [] c.change_type = "D" -> c.a_path = c.b_path /\ t[c.a_path] # Absent
      [] c.change_type = "R" -> c.a_path # c.b_path /\ t[c.a_path] # Absent /\ t[c.b_path] = Absent

\* A set of changes that git reports as such: on disjoint paths, and never a
\* deletion next to an addition of the same blob (git reports that as a rename).
ValidCommit(t, cs) ==
    /\ cs # {}
    /\ \A c \in cs : ValidChange(t, c)
    /\ \A c, d \in cs : c # d => Touched(c) \cap Touched(d) = {}
    /\ \A c, d \in cs : ~(c.change_type = "D" /\ d.change_type = "A" /\ t[c.a_path] = ShortBlob)

ApplyCommit(t, cs) ==
    [n \in RepoFiles |->
        IF \E c \in cs : c.change_type = "A" /\ c.b_path = n THEN ShortBlob
        ELSE IF \E c \in cs : c.change_type = "M" /\ c.b_path = n THEN OtherBlob(t[n])
        ELSE IF \E c \in cs : c.change_type \in {"D", "R"} /\ c.a_path = n THEN Absent
        ELSE IF \E c \in cs : c.change_type = "R" /\ c.b_path = n
             THEN t[(CHOOSE c \in cs : c.change_type = "R" /\ c.b_path = n).a_path]
        ELSE t[n]]

OrderedNames(S) == SelectSeq(FileOrder, LAMBDA n : n \in S)

\* a diff as the list the client returns, in path order
DiffSeq(d) ==
    LET names == OrderedNames({c.a_path : c \in d})
    IN  [i \in 1..Len(names) |-> CHOOSE c \in d : c.a_path = names[i]]

\* latest_commit.diff(git.NULL_TREE): one entry per file of the commit
DiffNullTree(t) ==
    {[change_type |-> "D", a_path |-> n, b_path |-> n] : n \in {m \in RepoFiles : t[m] # Absent}}

\* repo.index.entries after checkout and pull: the files of the newest commit
IndexEntries(t) == OrderedNames({n \in RepoFiles : t[n] # Absent})

-----------------------------------------------------------------------------
(* utils/document_processor.py: get_changed_files *)

get_changed_files(get_all_files) ==
    IF get_all_files
    THEN [i \in 1..Len(IndexEntries(tree)) |-> Prefix(IndexEntries(tree)[i])]
    ELSE IF commitCount = 1
         THEN LET items == DiffSeq(DiffNullTree(tree))
              IN  [i \in 1..Len(items) |-> Prefix(items[i].a_path)]
         ELSE LET items == DiffSeq(headDiff)
              IN  [i \in 1..Len(items) |-> Prefix(items[i].a_path)]

-----------------------------------------------------------------------------
(* utils/document_processor.py: load_and_split_documents *)

LoaderFor(file_extension) ==
    IF file_extension \in TextExtensions THEN "TextLoader"
    ELSE IF file_extension = ".csv" THEN "CSVLoader"
    ELSE IF file_extension = ".ipynb" THEN "NotebookLoader"
    ELSE IF file_extension = ".pdf" THEN "PyPDFLoader"
    ELSE None

\* the text splitter cuts a short text into one chunk and a long one into two
NumChunks(blob) == IF blob = ShortBlob THEN 1 ELSE 2

SplitDocument(doc) ==
    [i \in 1..NumChunks(doc.blob) |->
        [source |-> doc.source, loader |-> doc.loader, blob |-> doc.blob, part |-> i]]

RECURSIVE SplitDocuments(_)
SplitDocuments(documents) ==
    IF documents = << >> THEN << >>
    ELSE SplitDocument(Head(documents)) \o SplitDocuments(Tail(documents))

\* The loop over file_paths.  fs maps a path to its blob (Absent: no such file);
\* failing is the set of paths whose loader.load() raises.
RECURSIVE LoadFiles(_, _, _)
LoadFiles(file_paths, fs, failing) ==
    IF file_paths = << >> THEN << >>
    ELSE LET file_path == Head(file_paths)
             rest == LoadFiles(Tail(file_paths), fs, failing)
             file_extension == Lower(Splitext(file_path))
             loader == LoaderFor(file_extension)
         IN  IF fs[file_path] = Absent THEN rest
             ELSE IF loader = None THEN rest
             ELSE IF file_path \in failing THEN rest
             ELSE <<[source |-> file_path, loader |-> loader, blob |-> fs[file_path]]>>
                  \o rest

\* the loop with the try around it instead of inside it: the first loader
\* exception ends the loop
RECURSIVE LoadFilesUntilError(_, _, _)
LoadFilesUntilError(file_paths, fs, failing) ==
    IF file_paths = << >> THEN << >>
    ELSE LET file_path == Head(file_paths)
             rest == LoadFilesUntilError(Tail(file_paths), fs, failing)
             loader == LoaderFor(Lower(Splitext(file_path)))
         IN  IF fs[file_path] = Absent THEN rest
             ELSE IF loader = None THEN rest
             ELSE IF file_path \in failing THEN << >>
             ELSE <<[source |-> file_path, loader |-> loader, blob |-> fs[file_path]]>>
                  \o rest

load_and_split_documents_until_error(file_paths, fs, failing) ==
    LET documents == LoadFilesUntilError(file_paths, fs, failing)
    IN  IF documents # << >> THEN SplitDocuments(documents) ELSE << >>

load_and_split_documents(file_paths, fs, failing) ==
    LET documents == LoadFiles(file_paths, fs, failing)
    IN  IF documents # << >> THEN SplitDocuments(documents) ELSE << >>

-----------------------------------------------------------------------------
(* utils/vectorstore.py *)

\* A vector store is the list of the chunks added to it; NoneStore is Python's None.
NoneStore == [is_none |-> TRUE, docs |-> << >>]

Store(docs) == [is_none |-> FALSE, docs |-> docs]

NoIndex == [exists |-> FALSE, load |-> "ok", docs |-> << >>]

Min(a, b) == IF a < b THEN a ELSE b

\* init_vectorstore's default batch_size
BatchSize == 100

\* get_vectorstore creating an empty store when none can be loaded
get_vectorstore_or_create ==
    IF faiss_index.exists /\ faiss_index.load = "ok"
    THEN [raised |-> FALSE, vectorstore |-> Store(faiss_index.docs)]
    ELSE [raised |-> FALSE, vectorstore |-> Store(<< >>)]

\* raised: FAISS.load_local raised something other than RuntimeError
get_vectorstore ==
    IF faiss_index.exists
    THEN CASE faiss_index.load = "ok" ->
                [raised |-> FALSE, vectorstore |-> Store(faiss_index.docs)]
           [] faiss_index.load = "RuntimeError" ->
                [raised |-> FALSE, vectorstore |-> NoneStore]
           [] OTHER ->
                [raised |-> TRUE, vectorstore |-> NoneStore]
    ELSE [raised |-> FALSE, vectorstore |-> NoneStore]

\* the loop of add_document_batches from offset i on; bad is the set of offsets
\* whose vectorstore.add_documents(batch) raises
RECURSIVE AddBatchesFrom(_, _, _, _, _)
AddBatchesFrom(i, documents, vectorstore, batch_size, bad) ==
    IF i >= Len(documents) THEN vectorstore
    ELSE LET batch == SubSeq(documents, i + 1, Min(i + batch_size, Len(documents)))
             after == IF i \in bad THEN vectorstore
                      ELSE Store(vectorstore.docs \o batch)
         IN  AddBatchesFrom(i + batch_size, documents, after, batch_size, bad)

\* the loop without its try/except: the first failing batch ends it
RECURSIVE AddBatchesUntilError(_, _, _, _, _)
AddBatchesUntilError(i, documents, vectorstore, batch_size, bad) ==
    IF i >= Len(documents) \/ i \in bad THEN vectorstore
    ELSE LET batch == SubSeq(documents, i + 1, Min(i + batch_size, Len(documents)))
         IN  AddBatchesUntilError(i + batch_size, documents,
                                  Store(vectorstore.docs \o batch), batch_size, bad)

add_document_batches_until_error(documents, vectorstore, batch_size, bad) ==
    AddBatchesUntilError(0, documents, vectorstore, batch_size, bad)

add_document_batches(documents, vectorstore, batch_size, bad) ==
    AddBatchesFrom(0, documents, vectorstore, batch_size, bad)

init_vectorstore(documents, batch_size, bad) ==
    IF documents = << >> THEN NoneStore
    ELSE LET first_batch == SubSeq(documents, 1, Min(batch_size, Len(documents)))
             vectorstore == Store(first_batch)
             remaining == IF batch_size < Len(documents)
                          THEN SubSeq(documents, batch_size + 1, Len(documents))
                          ELSE << >>
         IN  IF remaining # << >>
             THEN add_document_batches(documents, vectorstore, batch_size, bad)
             ELSE vectorstore

\* save_vectorstore writing only when ./faiss_index does not exist yet
save_vectorstore_if_absent(vectorstore) ==
    IF ~vectorstore.is_none /\ ~faiss_index.exists
    THEN [exists |-> TRUE, load |-> "ok", docs |-> vectorstore.docs]
    ELSE faiss_index

save_vectorstore(vectorstore) ==
    IF ~vectorstore.is_none
    THEN [exists |-> TRUE, load |-> "ok", docs |-> vectorstore.docs]
    ELSE faiss_index

-----------------------------------------------------------------------------
(* utils/document_processor.py: index_documents *)

\* index_documents building a new store on every run
index_documents_rebuild(documents, embed_fails) ==
    IF get_vectorstore.raised \/ (embed_fails /\ documents # << >>)
    THEN [raised |-> TRUE, vectorstore |-> NoneStore]
    ELSE [raised |-> FALSE, vectorstore |-> init_vectorstore(documents, BatchSize, {})]

\* index_documents replacing the chunks of the files it indexes again: the
\* chunks the loaded store holds for a source of this run are dropped first
index_documents_replacing(documents, embed_fails) ==
    LET got == get_vectorstore
        sources == {documents[i].source : i \in 1..Len(documents)}
        kept == SelectSeq(got.vectorstore.docs, LAMBDA doc : doc.source \notin sources)
    IN  IF got.raised THEN [raised |-> TRUE, vectorstore |-> NoneStore]
        ELSE IF ~got.vectorstore.is_none
        THEN IF embed_fails THEN [raised |-> TRUE, vectorstore |-> got.vectorstore]
             ELSE [raised |-> FALSE, vectorstore |-> Store(kept \o documents)]
        ELSE IF embed_fails /\ documents # << >>
             THEN [raised |-> TRUE, vectorstore |-> NoneStore]
             ELSE [raised |-> FALSE,
                   vectorstore |-> init_vectorstore(documents, BatchSize, {})]

\* embed_fails: the embedding call made by add_documents / from_documents raises
index_documents(documents, embed_fails) ==
    LET got == get_vectorstore
    IN  IF got.raised THEN [raised |-> TRUE, vectorstore |-> NoneStore]
        ELSE IF ~got.vectorstore.is_none
        THEN IF embed_fails THEN [raised |-> TRUE, vectorstore |-> got.vectorstore]
             ELSE [raised |-> FALSE,
                   vectorstore |-> Store(got.vectorstore.docs \o documents)]
        ELSE IF embed_fails /\ documents # << >>
             THEN [raised |-> TRUE, vectorstore |-> NoneStore]
             ELSE [raised |-> FALSE,
                   vectorstore |-> init_vectorstore(documents, BatchSize, {})]

-----------------------------------------------------------------------------
(* document_indexer.py: main *)

Range(s) == {s[i] : i \in 1..Len(s)}

\* the checkout below repo_path after the pull
WorkTree == [p \in {Prefix(n) : n \in RepoFiles} |-> tree[<<p[2], p[3]>>]]

\* outcome of a run, whether it loaded the persisted index, and the chunks it
\* produced
NoRun == [outcome |-> "none", existed |-> FALSE, loaded |-> FALSE, documents |-> << >>]

Faults == {"none", "git", "split", "embed"}

\* A run whose except branch saves what the run has built so far.
IndexerRunSavingOnError(get_all_files, failing, fault) ==
    LET changed_files == get_changed_files(get_all_files)
        documents == load_and_split_documents(changed_files, WorkTree, failing)
        indexed == index_documents(documents, fault = "embed")
        report(outcome, docs) ==
            [outcome |-> outcome, existed |-> faiss_index.exists,
             loaded |-> ~get_vectorstore.vectorstore.is_none, documents |-> docs]
    IN  /\ failing \subseteq Range(changed_files)
        /\ fault # "none" => failing = {}
        /\ Len(faiss_index.docs) + Len(documents) <= MaxDocs
        /\ IF fault \in {"git", "split"}
           THEN /\ cloned' = TRUE
                /\ run' = report("error", << >>)
                /\ UNCHANGED <<faiss_index, indexedTree>>
           ELSE IF indexed.raised
           THEN /\ cloned' = TRUE
                /\ run' = report("error", documents)
                /\ faiss_index' = save_vectorstore(
                                      Store(indexed.vectorstore.docs \o documents))
                /\ UNCHANGED indexedTree
           ELSE /\ cloned' = TRUE
                /\ faiss_index' = save_vectorstore(indexed.vectorstore)
                /\ indexedTree' = [valid |-> TRUE, tree |-> tree]
                /\ run' = report("indexed", documents)
        /\ UNCHANGED <<tree, headDiff, commitCount, search, load_in, load_out,
                       batch_in, batch_out, rag>>

\* One run of the indexer.  fault names the call that raises, if any; failing is
\* the set of files whose loader raises.
IndexerRun(get_all_files, failing, fault) ==
    LET changed_files == get_changed_files(get_all_files)
        documents == load_and_split_documents(changed_files, WorkTree, failing)
        indexed == index_documents(documents, fault = "embed")
        report(outcome, docs) ==
            [outcome |-> outcome, existed |-> faiss_index.exists,
             loaded |-> ~get_vectorstore.vectorstore.is_none, documents |-> docs]
    IN  /\ failing \subseteq Range(changed_files)
        /\ fault # "none" => failing = {}
        /\ Len(faiss_index.docs) + Len(documents) <= MaxDocs
        /\ IF fault = "git"
           THEN /\ cloned' \in {cloned, TRUE}
                /\ run' = report("error", << >>)
                /\ UNCHANGED <<faiss_index, indexedTree>>
           ELSE IF fault = "split" /\ documents # << >>
           THEN /\ cloned' = TRUE
                /\ run' = report("error", << >>)
                /\ UNCHANGED <<faiss_index, indexedTree>>
           ELSE IF indexed.raised
           THEN /\ cloned' = TRUE
                /\ run' = report("error", documents)
                /\ UNCHANGED <<faiss_index, indexedTree>>
           ELSE /\ fault \in {"none", "embed"}
                /\ cloned' = TRUE
                /\ faiss_index' = save_vectorstore(indexed.vectorstore)
                /\ indexedTree' = [valid |-> TRUE, tree |-> tree]
                /\ run' = report("indexed", documents)
        /\ UNCHANGED <<tree, headDiff, commitCount, search, load_in, load_out,
                   batch_in, batch_out, rag>>

\* A commit is pushed to the default branch of the remote.
Commit(cs) ==
    /\ commitCount < MaxCommits
    /\ ValidCommit(tree, cs)
    /\ tree' = ApplyCommit(tree, cs)
    /\ headDiff' = cs
    /\ commitCount' = commitCount + 1
    /\ UNCHANGED <<cloned, faiss_index, indexedTree, run, search, load_in, load_out,
                   batch_in, batch_out, rag>>

\* The files of ./faiss_index become unreadable: FAISS.load_local will raise.
CorruptIndex(error) ==
    /\ faiss_index.exists
    /\ faiss_index.load = "ok"
    /\ faiss_index' = [faiss_index EXCEPT !.load = error]
    /\ UNCHANGED <<tree, headDiff, commitCount, cloned, indexedTree, run, search,
                   load_in, load_out,
                   batch_in, batch_out, rag>>

-----------------------------------------------------------------------------
(* Retrieval over a vector store, as the FAISS retrievers do it.  Scores are  *)
(* in tenths.  A query names a file stem: the chunks of that file are the     *)
(* relevant ones.                                                             *)

Queries == {"a"}

Relevance(query, doc) == IF doc.source[2] = query THEN 10 ELSE 8

Similarity(d, e) ==
    IF d = e THEN 10 ELSE IF d.source = e.source THEN 5 ELSE 0

MaxOf(S) == IF S = {} THEN 0 ELSE CHOOSE x \in S : \A y \in S : y <= x

\* Maximal Marginal Relevance of candidate i given the positions already selected
MmrScore(docs, query, selected, i, lambda_mult) ==
    lambda_mult * Relevance(query, docs[i])
    - (10 - lambda_mult) * MaxOf({Similarity(docs[i], docs[selected[j]]) :
                                    j \in 1..Len(selected)})

RECURSIVE Greedy(_, _, _, _, _, _)
Greedy(docs, query, remaining, selected, k, lambda_mult) ==
    IF Len(selected) >= k \/ remaining = {} THEN selected
    ELSE LET score(i) == MmrScore(docs, query, selected, i, lambda_mult)
             best == CHOOSE i \in remaining :
                        \A j \in remaining :
                            score(i) > score(j) \/ (score(i) = score(j) /\ i <= j)
         IN  Greedy(docs, query, remaining \ {best}, Append(selected, best), k,
                    lambda_mult)

\* vectorstore.similarity_search(query, k): the k most relevant chunks
similarity_search(docs, query, k) ==
    LET picked == Greedy(docs, query, 1..Len(docs), << >>, k, 10)
    IN  [i \in 1..Len(picked) |-> docs[picked[i]]]

\* max_marginal_relevance_search: fetch_k candidates by relevance, then k of
\* them by marginal relevance
mmr_search(docs, query, k, fetch_k, lambda_mult) ==
    LET fetched == Greedy(docs, query, 1..Len(docs), << >>, fetch_k, 10)
        picked == Greedy(docs, query, Range(fetched), << >>, k, lambda_mult)
    IN  [i \in 1..Len(picked) |-> docs[picked[i]]]

RetrieverInvoke(retriever, docs, query) ==
    IF retriever.search_type = "mmr"
    THEN mmr_search(docs, query, retriever.search_kwargs.k,
                    retriever.search_kwargs.fetch_k,
                    retriever.search_kwargs.lambda_mult)
    ELSE similarity_search(docs, query, retriever.search_kwargs.k)

-----------------------------------------------------------------------------
(* utils/reranker.py *)

\* qa_search's default top_k, and create_mmr_retriever's default lambda_mult
\* (0.8, in tenths)
TopK == 50
LambdaMult == 8

SimilarityRetriever(k) == [search_type |-> "similarity", search_kwargs |-> [k |-> k]]

\* the fallback built without search_kwargs: the library's default k of 4
create_mmr_retriever_default_k(k, top_k, lambda_mult, mmr_fails) ==
    IF ~mmr_fails
    THEN [search_type |-> "mmr",
          search_kwargs |-> [k |-> k, fetch_k |-> top_k, lambda_mult |-> lambda_mult]]
    ELSE SimilarityRetriever(4)

\* mmr_fails: vectorstore.as_retriever(search_type="mmr", ...) raises
create_mmr_retriever(k, top_k, lambda_mult, mmr_fails) ==
    IF ~mmr_fails
    THEN [search_type |-> "mmr",
          search_kwargs |-> [k |-> k, fetch_k |-> top_k, lambda_mult |-> lambda_mult]]
    ELSE SimilarityRetriever(k)

-----------------------------------------------------------------------------
(* utils/response_formatter.py *)

Language(extension) ==
    IF extension \in {".js", ".jsx", ".ts", ".tsx"} THEN "javascript"
    ELSE IF extension \in {".html", ".htm"} THEN "html"
    ELSE IF extension \in {".css"} THEN "css"
    ELSE IF extension \in {".json"} THEN "json"
    ELSE IF extension \in {".md", ".markdown"} THEN "markdown"
    ELSE "python"

format_response(answer, source_documents) ==
    [answer |-> answer,
     sources |-> [i \in 1..Len(source_documents) |->
                    LET doc == source_documents[i]
                    IN  [number |-> i,
                         rel_path |-> <<doc.source[2], doc.source[3]>>,
                         file_path |-> doc.source,
                         language |-> Language(Lower(Splitext(doc.source))),
                         page_content |-> <<doc.blob, doc.part>>]]]

-----------------------------------------------------------------------------
(* utils/qa_chain.py *)

NoRetriever == [search_type |-> "none", search_kwargs |-> [k |-> 0]]

NoAnswer == [kind |-> "none", question |-> "", context |-> << >>]

NoResponse == [answer |-> NoAnswer, sources |-> << >>]

NoVectorstoreMessage ==
    "Error: No vectorstore found. Please index your code repository first."

\* What a call returns and what it did on the way: the retriever it built, the
\* retrievals it ran (by search type), the number of chat-model calls it made.
Result(returned, message, response, retriever, retrievals, llm_calls) ==
    [returned |-> returned, message |-> message, response |-> response,
     retriever |-> retriever, retrievals |-> retrievals, llm_calls |-> llm_calls]

InvokeFaults == {"none", "retriever", "llm", "sources"}

\* invoke_fault: the call inside the try block that raises, if any
qa_search(query, docs, k, top_k, return_formatted, rerank, mmr_fails, invoke_fault) ==
    LET retriever == IF rerank
                     THEN create_mmr_retriever(k, top_k, LambdaMult, mmr_fails)
                     ELSE SimilarityRetriever(k)
        context == RetrieverInvoke(retriever, docs, query)
        answer == [kind |-> "llm", question |-> query, context |-> context]
        source_documents == RetrieverInvoke(retriever, docs, query)
        kind == retriever.search_type
    IN  CASE invoke_fault = "retriever" ->
               Result("string", "Error querying the model", NoResponse, retriever,
                      << >>, 0)
          [] invoke_fault = "llm" ->
               Result("string", "Error querying the model", NoResponse, retriever,
                      <<kind>>, 1)
          [] invoke_fault = "sources" ->
               Result("string", "Error querying the model", NoResponse, retriever,
                      <<kind>>, 1)
          [] OTHER ->
               IF return_formatted
               THEN Result("formatted", "", format_response(answer, source_documents),
                           retriever, <<kind, kind>>, 1)
               ELSE Result("tuple", "", [answer |-> answer, sources |-> source_documents],
                           retriever, <<kind, kind>>, 1)

\* a store loaded once and kept: the index as it was before the last indexer run
SearchStoreKept ==
    IF run.outcome = "indexed" /\ run.loaded /\ ~get_vectorstore.vectorstore.is_none
    THEN [raised |-> FALSE,
          vectorstore |-> Store(SubSeq(faiss_index.docs, 1,
                                       Len(faiss_index.docs) - Len(run.documents)))]
    ELSE get_vectorstore

\* the vector store a search_code call works on when none is passed to it
SearchStore == get_vectorstore

\* search_code once it has a vector store: the dispatch on search_type
SearchBy(docs, query, search_type, k, rerank, mmr_fails, invoke_fault) ==
    IF search_type = "qa"
    THEN qa_search(query, docs, k, TopK, TRUE, rerank, mmr_fails, invoke_fault)
    ELSE IF invoke_fault # "none"
    THEN Result("string", "Error during search", NoResponse, NoRetriever, << >>, 0)
    ELSE Result("formatted", "",
                format_response([kind |-> "heading", question |-> query,
                                 context |-> << >>],
                                similarity_search(docs, query, k)),
                NoRetriever, <<"similarity">>, 0)

search_code(query, search_type, k, rerank, mmr_fails, invoke_fault) ==
    LET got == SearchStore
        vectorstore == got.vectorstore
    IN  IF got.raised
        THEN Result("raised", "", NoResponse, NoRetriever, << >>, 0)
        ELSE IF vectorstore.is_none
        THEN Result("string", NoVectorstoreMessage, NoResponse, NoRetriever, << >>, 0)
        ELSE SearchBy(vectorstore.docs, query, search_type, k, rerank, mmr_fails,
                      invoke_fault)

NoSearch == [called |-> FALSE, search_type |-> "qa", k |-> 1, rerank |-> FALSE,
             mmr_fails |-> FALSE,
             result |-> Result("none", "", NoResponse, NoRetriever, << >>, 0)]

\* The search button of the UI: search_code(query, type, k, rerank=rerank), with
\* no vector store passed.
SearchCode(query, search_type, k, rerank, mmr_fails, invoke_fault) ==
    /\ mmr_fails => (search_type = "qa" /\ rerank)
    /\ invoke_fault \in {"retriever", "sources"} => search_type = "qa"
    /\ (SearchStore.raised \/ SearchStore.vectorstore.is_none)
          => (~mmr_fails /\ invoke_fault = "none")
    /\ search' = [called |-> TRUE, search_type |-> search_type, k |-> k,
                  rerank |-> rerank, mmr_fails |-> mmr_fails,
                  result |-> search_code(query, search_type, k, rerank, mmr_fails,
                                         invoke_fault)]
    /\ UNCHANGED <<tree, headDiff, commitCount, cloned, faiss_index, indexedTree, run,
                   load_in, load_out,
                   batch_in, batch_out, rag>>

-----------------------------------------------------------------------------
(* generate_evaluation_questions.py, generate_rerank_evaluation_questions.py: *)
(* generate_rag_answers over the questions of an evaluation set              *)

NUM_NEIGHBORS == 5

NUM_TOP_K == 20

MaxQuestions == 2

\* a question before generate_rag_answers reaches it
Question(query) ==
    [question |-> query, has_rag |-> FALSE, rag_answer |-> NoAnswer,
     rag_context |-> << >>]

\* the loop of generate_rag_answers from question i on. done holds the questions
\* as the loop has left them, returned what each qa_search call handed back.
\* "answer, sources = qa_search(...)" needs a pair: unpacking the error string
\* raises ValueError, which ends the loop and the function.
RECURSIVE RagAnswersFrom(_, _, _, _, _, _, _, _, _)
RagAnswersFrom(i, done, returned, docs, k, top_k, rerank, mmr_fails, faults) ==
    IF i > Len(done)
    THEN [raised |-> FALSE, returned |-> returned, questions |-> done]
    ELSE LET result == qa_search(done[i].question, docs, k, top_k, FALSE, rerank,
                                 mmr_fails, faults[i])
         IN  IF result.returned = "tuple"
             THEN RagAnswersFrom(
                      i + 1,
                      [done EXCEPT ![i] =
                          [question |-> done[i].question,
                           has_rag |-> TRUE,
                           rag_answer |-> result.response.answer,
                           rag_context |->
                               [j \in 1..Len(result.response.sources) |->
                                   <<result.response.sources[j].blob,
                                     result.response.sources[j].part>>]]],
                      Append(returned, result.returned),
                      docs, k, top_k, rerank, mmr_fails, faults)
             ELSE [raised |-> TRUE, returned |-> Append(returned, result.returned),
                   questions |-> done]

generate_rag_answers(questions, docs, k, top_k, rerank, mmr_fails, faults) ==
    RagAnswersFrom(1, questions, << >>, docs, k, top_k, rerank, mmr_fails, faults)

\* main of either script: the store is loaded, then every question is answered;
\* faults[i] is the call that raises inside qa_search for question i
GenerateRagAnswers(queries, rerank, mmr_fails, faults) ==
    LET got == get_vectorstore
        out == generate_rag_answers(
                   [i \in 1..Len(queries) |-> Question(queries[i])],
                   got.vectorstore.docs, NUM_NEIGHBORS, NUM_TOP_K, rerank, mmr_fails,
                   faults)
    IN  /\ ~got.raised
        /\ ~got.vectorstore.is_none
        /\ mmr_fails => rerank
        /\ Len(faults) = Len(queries)
        /\ rag' = [called |-> TRUE, rerank |-> rerank, faults |-> faults,
                   returned |-> out.returned, raised |-> out.raised,
                   questions |-> out.questions]
        /\ UNCHANGED <<tree, headDiff, commitCount, cloned, faiss_index, indexedTree,
                       run, search, load_in, load_out, batch_in, batch_out>>

-----------------------------------------------------------------------------
(* The system: commits land on the remote, the indexer and searches run.     *)

FirstCommits ==
    {t \in [RepoFiles -> {Absent, ShortBlob}] : \E n \in RepoFiles : t[n] # Absent}

NoLoad == [file_paths |-> << >>, missing |-> {}, failing |-> {}]

NotLoaded == [called |-> FALSE, documents |-> << >>]

NoBatch == [documents |-> << >>, vectorstore |-> NoneStore, batch_size |-> 1, bad |-> {}]

NotBatched == [called |-> "none", vectorstore |-> NoneStore]

NoRag == [called |-> FALSE, rerank |-> FALSE, faults |-> << >>, returned |-> << >>,
          raised |-> FALSE, questions |-> << >>]

Init ==
    /\ tree \in FirstCommits
    /\ headDiff = {}
    /\ commitCount = 1
    /\ cloned = FALSE
    /\ faiss_index = NoIndex
    /\ indexedTree = [valid |-> FALSE, tree |-> [n \in RepoFiles |-> Absent]]
    /\ run = NoRun
    /\ search = NoSearch
    /\ load_in = NoLoad
    /\ load_out = NotLoaded
    /\ batch_in = NoBatch
    /\ batch_out = NotBatched
    /\ rag = NoRag

\* the changes git can report for the next commit
NextChanges == {c \in DiffEntries : ValidChange(tree, c)}

\* the remote and the indexer
NextIndex ==
    \/ \E c \in NextChanges : \E d \in NextChanges : Commit({c, d})
    \/ \E get_all_files \in BOOLEAN, fault \in Faults :
         \E failing \in SUBSET {Prefix(n) : n \in RepoFiles} :
            IndexerRun(get_all_files, failing, fault)
    \/ \E error \in {"RuntimeError", "OtherError"} : CorruptIndex(error)

Spec == Init /\ [][NextIndex]_vars

\* the indexer and the searches of the UI, on a repository that does not change
NextSearch ==
    \/ \E get_all_files \in BOOLEAN :
         \E failing \in SUBSET {Prefix(n) : n \in RepoFiles} :
            IndexerRun(get_all_files, failing, "none")
    \/ \E error \in {"RuntimeError", "OtherError"} : CorruptIndex(error)
    \/ \E query \in Queries, search_type \in {"qa", "similarity"}, k \in 1..MaxK,
          rerank \in BOOLEAN, mmr_fails \in BOOLEAN, invoke_fault \in InvokeFaults :
            SearchCode(query, search_type, k, rerank, mmr_fails, invoke_fault)

InitSearch == Init /\ tree = [n \in RepoFiles |-> ShortBlob]

SpecSearch == InitSearch /\ [][NextSearch]_vars

\* the indexer and the evaluation scripts, on a repository that does not change
NextEval ==
    \/ \E get_all_files \in BOOLEAN :
         \E failing \in SUBSET {Prefix(n) : n \in RepoFiles} :
            IndexerRun(get_all_files, failing, "none")
    \/ \E n \in 1..MaxQuestions, rerank \in BOOLEAN, mmr_fails \in BOOLEAN :
         \E queries \in [1..n -> Queries], faults \in [1..n -> InvokeFaults] :
            GenerateRagAnswers(queries, rerank, mmr_fails, faults)

SpecEval == InitSearch /\ [][NextEval]_vars

-----------------------------------------------------------------------------
(* load_and_split_documents on its own, for any list of paths *)

LoadPaths == {Prefix(n) : n \in AllFiles}

\* the file system of a stand-alone call: the files named in missing do not exist
LoadFs(missing) ==
    [p \in LoadPaths |->
        IF p \in missing THEN Absent
        ELSE IF p[2] \in {"a", "e"} THEN LongBlob ELSE ShortBlob]

SeqsUpTo(S, n) == UNION {[1..m -> S] : m \in 0..n}

LoadInputs ==
    UNION {{[file_paths |-> fp, missing |-> m, failing |-> f] :
                m \in SUBSET Range(fp), f \in SUBSET Range(fp)} :
           fp \in SeqsUpTo(LoadPaths, MaxFiles)}

LoadCall ==
    /\ ~load_out.called
    /\ load_out' = [called |-> TRUE,
                    documents |-> load_and_split_documents(
                                      load_in.file_paths, LoadFs(load_in.missing),
                                      load_in.failing)]
    /\ UNCHANGED <<tree, headDiff, commitCount, cloned, faiss_index, indexedTree, run,
                   search, load_in, batch_in, batch_out, rag>>

InitLoad ==
    /\ tree = [n \in RepoFiles |-> ShortBlob]
    /\ headDiff = {}
    /\ commitCount = 1
    /\ cloned = FALSE
    /\ faiss_index = NoIndex
    /\ indexedTree = [valid |-> FALSE, tree |-> [n \in RepoFiles |-> Absent]]
    /\ run = NoRun
    /\ search = NoSearch
    /\ load_in \in {i \in LoadInputs : i.missing \cap i.failing = {}}
    /\ load_out = NotLoaded
    /\ batch_in = NoBatch
    /\ batch_out = NotBatched
    /\ rag = NoRag

NextLoad == LoadCall

SpecLoad == InitLoad /\ [][NextLoad]_vars

-----------------------------------------------------------------------------
(* init_vectorstore and add_document_batches on their own, for any list of  *)
(* documents, any batch_size >= 1 and any set of failing batches            *)

MaxBatchDocs == 4

MaxBatchSize == 3

\* the offsets range(0, n, batch_size) at which the loop takes a batch
Offsets(n, batch_size) == {o \in 0..(n - 1) : o % batch_size = 0}

\* n documents, told apart by their position in the run's list
Documents(n) == [i \in 1..n |-> [page_content |-> i]]

\* a store that already holds one document of an earlier run
EarlierStore == Store(<<[page_content |-> 0]>>)

BatchInputs ==
    UNION {{[documents |-> Documents(n), vectorstore |-> v,
             batch_size |-> b, bad |-> bad] :
                v \in {Store(<< >>), EarlierStore}, bad \in SUBSET Offsets(n, b)} :
           <<n, b>> \in (0..MaxBatchDocs) \X (1..MaxBatchSize)}

InitVectorstoreCall ==
    /\ batch_out.called = "none"
    /\ batch_out' = [called |-> "init_vectorstore",
                     vectorstore |-> init_vectorstore(
                                         batch_in.documents, batch_in.batch_size,
                                         batch_in.bad)]
    /\ UNCHANGED <<tree, headDiff, commitCount, cloned, faiss_index, indexedTree, run,
                   search, load_in, load_out, batch_in, rag>>

AddDocumentBatchesCall ==
    /\ batch_out.called = "none"
    /\ batch_out' = [called |-> "add_document_batches",
                     vectorstore |-> add_document_batches(
                                         batch_in.documents, batch_in.vectorstore,
                                         batch_in.batch_size, batch_in.bad)]
    /\ UNCHANGED <<tree, headDiff, commitCount, cloned, faiss_index, indexedTree, run,
                   search, load_in, load_out, batch_in, rag>>

InitBatch ==
    /\ tree = [n \in RepoFiles |-> ShortBlob]
    /\ headDiff = {}
    /\ commitCount = 1
    /\ cloned = FALSE
    /\ faiss_index = NoIndex
    /\ indexedTree = [valid |-> FALSE, tree |-> [n \in RepoFiles |-> Absent]]
    /\ run = NoRun
    /\ search = NoSearch
    /\ load_in = NoLoad
    /\ load_out = NotLoaded
    /\ batch_in \in BatchInputs
    /\ batch_out = NotBatched
    /\ rag = NoRag

NextBatch == InitVectorstoreCall \/ AddDocumentBatchesCall

SpecBatch == InitBatch /\ [][NextBatch]_vars

-----------------------------------------------------------------------------
(* Properties *)

Count(x, s) == Cardinality({i \in 1..Len(s) : s[i] = x})

\* The a_paths of the diff git computes from tree old to tree new, with rename
\* detection: a file that is absent in old and holds the blob of a file that
\* is gone in new is the target of a rename, listed under its old path.
ChangedBetween(old, new) ==
    {n \in RepoFiles :
        /\ old[n] # new[n]
        /\ ~(/\ old[n] = Absent
             /\ \E m \in RepoFiles : old[m] = new[n] /\ new[m] = Absent)}

\* C1: whenever the indexer has run before, the changed-file set that a run
\* with get_all_files false computes contains every file that changed since the
\* commit the previous run indexed, however many commits landed in between.
C1_ChangedSinceLastIndexedCovered ==
    (cloned /\ indexedTree.valid) =>
        {Prefix(n) : n \in ChangedBetween(indexedTree.tree, tree)}
            \subseteq Range(get_changed_files(FALSE))

\* C2: on the first run, when the local clone does not exist yet,
\* get_changed_files returns all files of the repository, whatever
\* get_all_files is and however many commits the branch has.
C2_FirstRunReturnsAllFiles ==
    ~cloned =>
        \A get_all_files \in BOOLEAN :
            Range(get_changed_files(get_all_files))
                = {Prefix(n) : n \in {m \in RepoFiles : tree[m] # Absent}}

\* C3: with get_all_files false and at least two commits, get_changed_files
\* returns exactly one path per entry of the diff from the previous commit to
\* the latest one, and every file the latest commit added, modified or renamed
\* is in the result under the path at which it exists in the checkout.
C3_OnePathPerEntryAtCheckoutPath ==
    commitCount >= 2 =>
        LET changed_files == get_changed_files(FALSE)
        IN  /\ Len(changed_files) = Cardinality(headDiff)
            /\ \A c \in headDiff : Count(Prefix(c.a_path), changed_files) = 1
            /\ \A c \in headDiff :
                 c.change_type \in {"A", "M", "R"} =>
                    \E i \in 1..Len(changed_files) :
                        /\ changed_files[i] = Prefix(c.b_path)
                        /\ WorkTree[changed_files[i]] # Absent

\* the first half of C3 alone
C3_OnePathPerEntry ==
    commitCount >= 2 =>
        LET changed_files == get_changed_files(FALSE)
        IN  /\ Len(changed_files) = Cardinality(headDiff)
            /\ \A c \in headDiff : Count(Prefix(c.a_path), changed_files) = 1

Loadable == faiss_index.exists /\ faiss_index.load = "ok"

\* C4: when a loadable persisted index exists, a successful indexer run leaves
\* a persisted index that holds every chunk persisted before the run plus every
\* chunk the run produced, each as often as before plus as often as produced:
\* no successful run removes a persisted chunk.
C4_IncrementalAddition ==
    [][(/\ Loadable
        /\ commitCount' = commitCount
        /\ faiss_index'.load = "ok"
        /\ run'.outcome = "indexed")
       => /\ faiss_index'.exists
          /\ \A chunk \in Range(faiss_index.docs) \cup Range(run'.documents)
                          \cup Range(faiss_index'.docs) :
                Count(chunk, faiss_index'.docs)
                    = Count(chunk, faiss_index.docs) + Count(chunk, run'.documents)]_vars

\* a second run has added its chunk to the chunks of an earlier run
C4_Witness ==
    /\ run.outcome = "indexed"
    /\ run.loaded
    /\ run.documents # << >>
    /\ Loadable
    /\ Len(faiss_index.docs) > Len(run.documents)

\* C5: a search_code call made without a vector store works on the index as it
\* is persisted when the call is made, so a search that starts after an indexer
\* run has saved works on an index that includes that run's chunks.
C5_SearchReadsPersistedIndex ==
    [][(search' # search /\ Loadable)
       => /\ \E query \in Queries, invoke_fault \in InvokeFaults :
                search'.result = SearchBy(faiss_index.docs, query, search'.search_type,
                                          search'.k, search'.rerank, search'.mmr_fails,
                                          invoke_fault)
          /\ run.outcome = "indexed"
                => Range(run.documents) \subseteq Range(faiss_index.docs)]_vars

\* a search has cited both chunks of an index whose second chunk the last run added
C5_Witness ==
    /\ search.called
    /\ search.result.returned = "formatted"
    /\ run.outcome = "indexed"
    /\ run.loaded
    /\ run.documents # << >>
    /\ Loadable
    /\ Len(search.result.response.sources) = Len(faiss_index.docs)
    /\ \E i \in 1..Len(search.result.response.sources) :
          search.result.response.sources[i].file_path = run.documents[1].source

\* C6: for every search_code call with rerank true that returns results, for
\* both search types, every retrieval it ran was an MMR retrieval (the case in
\* which the MMR retriever cannot be built is left out).
C6_RerankUsesMmr ==
    (/\ search.called
     /\ search.rerank
     /\ ~search.mmr_fails
     /\ search.result.returned = "formatted")
    => /\ search.result.retrievals # << >>
       /\ \A i \in 1..Len(search.result.retrievals) : search.result.retrievals[i] = "mmr"

\* C8: when no index can be obtained (the directory is absent, or loading it
\* raises RuntimeError), search_code returns the "No vectorstore found" message
\* whatever its arguments, runs no retrieval, calls no chat model and leaves the
\* index on disk as it is.
C8_NoVectorstoreMessage ==
    [][(search' # search
        /\ (~faiss_index.exists \/ faiss_index.load = "RuntimeError"))
       => /\ search'.result.returned = "string"
          /\ search'.result.message = NoVectorstoreMessage
          /\ search'.result.retrievals = << >>
          /\ search'.result.llm_calls = 0
          /\ search'.result.response = NoResponse
          /\ faiss_index' = faiss_index]_vars

\* a re-ranked search on an index that fails to load got the message
C8_Witness ==
    /\ search.called
    /\ search.rerank
    /\ search.result.message = NoVectorstoreMessage
    /\ faiss_index.exists
    /\ faiss_index.load = "RuntimeError"

ListedLoader(extension) ==
    CASE extension \in {".py", ".PY", ".MD"} -> "TextLoader"
      [] extension = ".csv" -> "CSVLoader"
      [] extension = ".ipynb" -> "NotebookLoader"
      [] extension = ".pdf" -> "PyPDFLoader"
      [] OTHER -> None

\* C9: the chunks load_and_split_documents returns are, for every path of the
\* list that exists, has a listed extension (in any letter case) and whose
\* loader does not raise, the chunks of that file, loaded with the loader of its
\* extension, once per occurrence in the list; a path that does not exist, has
\* another extension or whose loader raises contributes no chunk.
C9_LoaderChoiceAndIsolation ==
    load_out.called =>
        \A p \in LoadPaths :
            LET chunks == SelectSeq(load_out.documents, LAMBDA c : c.source = p)
                loads == /\ p \notin load_in.missing
                         /\ p \notin load_in.failing
                         /\ ListedLoader(Splitext(p)) # None
            IN  /\ loads => /\ Len(chunks) = Count(p, load_in.file_paths)
                                             * NumChunks(LoadFs(load_in.missing)[p])
                            /\ \A i \in 1..Len(chunks) :
                                  chunks[i].loader = ListedLoader(Splitext(p))
                /\ ~loads => chunks = << >>

\* the loader of the first file raised and the chunks of the second file, whose
\* extension is in upper case, were returned
C9_Witness ==
    /\ load_out.called
    /\ Len(load_in.file_paths) = 2
    /\ load_in.file_paths[1] \in load_in.failing
    /\ Splitext(load_in.file_paths[2]) = ".PY"
    /\ load_out.documents # << >>

C11_EveryDocumentAddedOnce ==
    (/\ batch_out.called = "init_vectorstore"
     /\ batch_in.documents # << >>
     /\ batch_in.bad = {})
    => /\ ~batch_out.vectorstore.is_none
       /\ \A i \in 1..Len(batch_in.documents) :
            Count(batch_in.documents[i], batch_out.vectorstore.docs) = 1

\* the positions of the documents whose batch is added without an exception
Added(n, batch_size, bad) ==
    {i \in 1..n : ((i - 1) \div batch_size) * batch_size \notin bad}

\* the documents at the positions of S, in the order of the list
Pick(documents, S) ==
    [j \in 1..Cardinality(S) |->
        documents[CHOOSE i \in S : Cardinality({h \in S : h < i}) = j - 1]]

\* C12: add_document_batches returns normally and leaves in the store what it
\* held before followed by the documents of the batches whose add succeeded,
\* each once and in the order of the list; the batches are the consecutive
\* slices of batch_size documents, and a failing batch stops no later batch.
C12_SucceededBatchesAdded ==
    batch_out.called = "add_document_batches"
    => /\ ~batch_out.vectorstore.is_none
       /\ batch_out.vectorstore.docs =
            batch_in.vectorstore.docs
            \o Pick(batch_in.documents,
                    Added(Len(batch_in.documents), batch_in.batch_size, batch_in.bad))

\* a batch fails and a later batch is added all the same
C12_Witness ==
    /\ batch_out.called = "add_document_batches"
    /\ \E o \in batch_in.bad :
         \E i \in (o + batch_in.batch_size + 1)..Len(batch_in.documents) :
            Count(batch_in.documents[i], batch_out.vectorstore.docs) = 1

\* C13: every qa_search call made with return_formatted=False hands back an
\* (answer, source_documents) pair, whatever raises inside it, so that
\* generate_rag_answers does not raise and leaves every question with a
\* rag_answer and a rag_context.
C13_EveryQuestionAnswered ==
    rag.called
    => /\ \A i \in 1..Len(rag.returned) : rag.returned[i] = "tuple"
       /\ ~rag.raised
       /\ \A i \in 1..Len(rag.questions) : rag.questions[i].has_rag

\* a step of an indexer run that ended in the except branch of main
FailedRun ==
    /\ run'.outcome = "error"
    /\ commitCount' = commitCount
    /\ \/ run' # run
       \/ cloned' # cloned
       \/ \E get_all_files \in BOOLEAN, fault \in Faults :
            \E failing \in SUBSET {Prefix(n) : n \in RepoFiles} :
               IndexerRun(get_all_files, failing, fault)

\* C14: an indexer run in which get_changed_files, load_and_split_documents or
\* index_documents raises does not save: the directory ./faiss_index is after
\* the run exactly what it was before it, and nothing the run produced is in it
\* that was not there before.
C14_FailedRunLeavesIndex ==
    [][FailedRun => faiss_index' = faiss_index]_vars

\* index_documents has raised over a run's chunks and the persisted index holds
\* none of them
C14_Witness ==
    /\ run.outcome = "error"
    /\ run.documents # << >>
    /\ faiss_index.exists
    /\ \A i \in 1..Len(run.documents) : Count(run.documents[i], faiss_index.docs) = 0

\* C15: when ./faiss_index exists and FAISS.load_local raises RuntimeError,
\* get_vectorstore returns None, and a successful indexer run that produced at
\* least one chunk saves a readable index made of this run's chunks only: every
\* chunk of the run is in it and no chunk that only earlier runs persisted is.
C15_UnreadableIndexReplaced ==
    [][(/\ faiss_index.exists
        /\ faiss_index.load = "RuntimeError"
        /\ commitCount' = commitCount
        /\ run'.outcome = "indexed"
        /\ run'.documents # << >>)
       => /\ ~get_vectorstore.raised
          /\ get_vectorstore.vectorstore.is_none
          /\ faiss_index'.exists
          /\ faiss_index'.load = "ok"
          /\ Range(faiss_index'.docs) = Range(run'.documents)
          /\ \A chunk \in Range(faiss_index.docs) \ Range(run'.documents) :
                Count(chunk, faiss_index'.docs) = 0]_vars

\* a run found an index it could not load and the persisted index now holds
\* that run's chunks
C15_Witness ==
    /\ run.outcome = "indexed"
    /\ run.existed
    /\ ~run.loaded
    /\ run.documents # << >>
    /\ Loadable
    /\ faiss_index.docs = run.documents

\* a step of a successful indexer run that saved a readable index
SavedRun ==
    /\ commitCount' = commitCount
    /\ run'.outcome = "indexed"
    /\ faiss_index'.load = "ok"

\* the run before this one succeeded on the same tree and produced the same chunks
SecondRun ==
    /\ run.outcome = "indexed"
    /\ run.documents # << >>
    /\ indexedTree.valid
    /\ indexedTree.tree = tree
    /\ run'.documents = run.documents

\* every persisted chunk is kept, and a second run persists its chunks again
OnlyAppends ==
    /\ \A chunk \in Range(faiss_index.docs) :
          Count(chunk, faiss_index'.docs) >= Count(chunk, faiss_index.docs)
    /\ SecondRun
          => \A chunk \in Range(run'.documents) :
                Count(chunk, faiss_index'.docs) >= 2 * Count(chunk, run'.documents)

====
